---- MODULE Spec2Model ----
(***************************************************************************)
(* The frame-capture and GIF-assembly pipeline of city-gifs:               *)
(*   useFrameManager  (Frame Store + Capture Controller),                  *)
(*   useFFmpeg        (Encoder Adapter),                                   *)
(*   useGIFCreator    (encode orchestration: isCreatingGIF, gifBlob),      *)
(*   useFrameCapture  (the public hook the App uses).                      *)
(*                                                                         *)
(* React state is modelled by its committed value.  Every handler call is  *)
(* one step and the component re-renders before the next step, so a        *)
(* handler sees the committed state.  An asynchronous call keeps, for its  *)
(* whole life, the closure of the render in which it was started: the      *)
(* values of isLoaded and isLoading that its useCallback captured are      *)
(* stored in the call record (fields L and G).                             *)
(***************************************************************************)
EXTENDS Integers, Sequences, FiniteSets, TLC

\* ---------------------------------------------------------------- bounds
\* maxFrames is chosen in 1..MaxCap when the hook is constructed
MaxCap == 3
\* number of images the Poller delivers in one behaviour
MaxBlobs == 4
\* createGIF calls that reach useGIFCreator.createGIF in one behaviour
MaxCalls == 2
\* FFmpeg instances constructed in one behaviour
MaxEngines == 3

\* the least number of selected frames createGIF accepts
MinSelected == 2

VARIABLES
  frames,        \* useFrameManager: frames (sequence of [blob, selected])
  isCapturing,   \* useFrameManager: isCapturing
  maxFrames,     \* useFrameCapture: maxFrames
  urls,          \* object URLs created by URL.createObjectURL and not revoked
  nextBlob,      \* the next image the Poller delivers (capture order)
  isCreatingGIF, \* useGIFCreator: isCreatingGIF
  gifBlob,       \* useGIFCreator: gifBlob, <<>> for null, <<content>> otherwise
  isLoaded,      \* useFFmpeg: isLoaded
  isLoading,     \* useFFmpeg: isLoading
  progress,      \* useFFmpeg: progress
  ffmpegRef,     \* useFFmpeg: ffmpegRef.current, 0 for null, else an engine index
  engines,       \* the FFmpeg instances constructed so far
  calls,         \* the createGIF calls in flight, by slot
  last,          \* the last step taken; for a rejected encode, its engine and
                 \* the number of frame files the call had written
  cameraImage,   \* useCameraPolling: data, 0 for undefined, else the fetch
                 \* result (its timestamp and its blob are both this number)
  lastTimestampRef, \* FullScreenLivePreview: lastTimestampRef.current
  delivered,     \* how many times onImageUpdate was called with each result
  failureCount,  \* react-query: failed attempts of the poll cycle under way
  queryError     \* react-query: the last poll cycle ended in an error

vars == <<frames, isCapturing, maxFrames, urls, nextBlob, isCreatingGIF, gifBlob,
          isLoaded, isLoading, progress, ffmpegRef, engines, calls, last,
          cameraImage, lastTimestampRef, delivered, failureCount, queryError>>

storeVars == <<frames, isCapturing, maxFrames, urls, nextBlob>>
adapterVars == <<isLoaded, isLoading, progress, ffmpegRef, engines>>
pollVars == <<cameraImage, lastTimestampRef, delivered, failureCount, queryError>>

\* ------------------------------------------------------------ Frame Store
Max(a, b) == IF a >= b THEN a ELSE b

\* Array.prototype.slice(-n): the last n elements; slice(-0) is slice(0)
SliceLast(s, n) ==
  IF n = 0 THEN s ELSE SubSeq(s, Max(1, Len(s) - n + 1), Len(s))

\* the frame addFrame constructs (createBlobUrl: true, defaultSelected: true)
DefaultSelectedFalse == FALSE
DefaultSelected == TRUE
NewFrame(blob) == [blob |-> blob, selected |-> DefaultSelected]

PrependFrame(current, newFrame) == <<newFrame>> \o current
\* const updated = [...current, newFrame]
AppendFrame(current, newFrame) == Append(current, newFrame)

AutoStopAlways(updated, max) == TRUE
AutoStopOffByOne(updated, max) == Len(updated) > max
\* if (updated.length >= maxFrames) setIsCapturing(false)
AutoStop(updated, max) == Len(updated) >= max

\* updated.length > maxFrames ? updated.slice(-maxFrames) : updated
Trim(updated, max) ==
  IF Len(updated) > max THEN SliceLast(updated, max) ELSE updated

AddFrameUpdaterNoCap(current, newFrame, max) ==
  [frames |-> AppendFrame(current, newFrame), stop |-> FALSE]
\* the updater addFrame hands to setFrames, with its setIsCapturing(false)
AddFrameUpdater(current, newFrame, max) ==
  LET updated == AppendFrame(current, newFrame)
  IN  [frames |-> Trim(updated, max), stop |-> AutoStop(updated, max)]

ToggleAtOffByOne(current, index) ==
  [i \in DOMAIN current |->
     IF i = index
       THEN [current[i] EXCEPT !.selected = ~current[i].selected]
       ELSE current[i]]
\* the map of toggleFrameSelection; index is a JavaScript (0-based) index
ToggleAt(current, index) ==
  [i \in DOMAIN current |->
     IF i - 1 = index
       THEN [current[i] EXCEPT !.selected = ~current[i].selected]
       ELSE current[i]]

Blobs(fs) == [i \in DOMAIN fs |-> fs[i].blob]
BlobSet(fs) == {fs[i].blob : i \in DOMAIN fs}

AllFrames(fs) == fs
\* frameManager.frames.filter(frame => frame.selected !== false)
SelectedFrames(fs) == SelectSeq(fs, LAMBDA f : f.selected # FALSE)

TooFewSelectedOffByOne(selectedFrames) == Len(selectedFrames) < 1
\* if (selectedFrames.length < 2) throw
TooFewSelected(selectedFrames) == Len(selectedFrames) < MinSelected


\* --------------------------------------------------------- Encoder Adapter
\* `frame_${i.toString().padStart(4, '0')}.jpg` names the file of index i
FileIdx == 0 .. (MaxCap - 1)
NoFile == 0

\* new FFmpeg(): not loaded, empty working space
NewEngine == [loaded |-> FALSE, files |-> [i \in FileIdx |-> NoFile], out |-> <<>>]

\* what the engine reads for -i frame_%04d.jpg: the files 0, 1, ... up to
\* the first index that is missing
RECURSIVE ReadFrom(_, _)
ReadFrom(files, i) ==
  IF i \in DOMAIN files /\ files[i] # NoFile
    THEN <<files[i]>> \o ReadFrom(files, i + 1)
    ELSE <<>>
ReadPattern(files) == ReadFrom(files, 0)

\* Math.round(p * 100), p given in thousandths
Round100(p) == (p + 5) \div 10
\* the values of p the engine reports while it encodes
ProgressReports == {254, 1000}

Slots == 1 .. MaxCalls
\* a call is "none" before it is made and "done" once it has settled
NoCall == [pc |-> "none", images |-> <<>>, L |-> FALSE, G |-> FALSE,
           eng |-> 0, i |-> 0, data |-> <<>>]
Settled == [NoCall EXCEPT !.pc = "done"]
InFlight == {c \in Slots : calls[c].pc \notin {"none", "done"}}
FreeSlots == {c \in Slots : calls[c].pc = "none"}
\* the positions inside the try block of useFFmpeg.createGIF
TryPcs == {"write", "exec", "read", "delete", "deleteOut"}
\* the positions inside useFFmpeg.createGIF (encode() of the adapter)
EncodePcs == TryPcs \cup {"load2"}

Adapter == [isLoaded |-> isLoaded, isLoading |-> isLoading, progress |-> progress,
            ffmpegRef |-> ffmpegRef, engines |-> engines]
SetAdapter(a) ==
  /\ isLoaded' = a.isLoaded
  /\ isLoading' = a.isLoading
  /\ progress' = a.progress
  /\ ffmpegRef' = a.ffmpegRef
  /\ engines' = a.engines

\* loadFFmpeg up to its first await, called by a closure that captured
\* isLoaded = call.L and isLoading = call.G
LoadFFmpeg(a, call, pcName) ==
  IF call.L \/ call.G
    THEN [a |-> a, call |-> call, st |-> "returned"]
    ELSE LET e == Len(a.engines) + 1
         IN  [a |-> [a EXCEPT !.isLoading = TRUE, !.progress = 0,
                              !.engines = Append(@, NewEngine), !.ffmpegRef = e],
              call |-> [call EXCEPT !.pc = pcName, !.eng = e],
              st |-> "pending"]

\* useFFmpeg.createGIF from the images check to the first writeFile
EncodeBody(a, call) ==
  IF Len(call.images) = 0 \/ a.ffmpegRef = 0
    THEN [a |-> a, call |-> call, st |-> "threw"]
    ELSE [a |-> [a EXCEPT !.progress = 0],
          call |-> [call EXCEPT !.pc = "write", !.eng = a.ffmpegRef, !.i = 0],
          st |-> "pending"]

\* useFFmpeg.createGIF from its entry: auto-load, then the body
FFmpegCreateGIF(a, call) ==
  IF a.ffmpegRef = 0 \/ ~call.L
    THEN LET r == LoadFFmpeg(a, call, "load2")
         IN  IF r.st = "pending" THEN r ELSE EncodeBody(r.a, r.call)
    ELSE EncodeBody(a, call)

\* the try block of useGIFCreator.createGIF up to its first pending await
GIFCreatorTry(a, call) ==
  IF ~call.L
    THEN LET r == LoadFFmpeg(a, call, "load1")
         IN  IF r.st = "pending" THEN r ELSE FFmpegCreateGIF(r.a, r.call)
    ELSE FFmpegCreateGIF(a, call)

\* finally { setIsLoading(false); setProgress(0) } of loadFFmpeg
LoadFinally(a) == [a EXCEPT !.isLoading = FALSE, !.progress = 0]

ProgressAfterEncodeSuccessOnly(cur, ok) == IF ok THEN 0 ELSE cur
\* finally { setProgress(0) } of useFFmpeg.createGIF
ProgressAfterEncode(cur, ok) == 0

CreatingAfterSettleSuccessOnly(cur, ok) == IF ok THEN FALSE ELSE cur
\* finally { setIsCreatingGIF(false) } of useGIFCreator.createGIF
CreatingAfterSettle(cur, ok) == FALSE


\* ------------------------------------------------------------------ Poller
\* the kinds of failure of one fetch attempt: fetch itself throws, the
\* response is not ok, the payload is not an image
ErrorKinds == {"network", "http", "notImage"}
\* error.message.includes('not an image'), on the message the catch of
\* queryFn has wrapped ("Camera feed unavailable: " + the original message)
IncludesNotAnImage(kind) == kind = "notImage"
RetryLimit == 2
RetryOffByOne(count, kind) ==
  IF IncludesNotAnImage(kind) THEN FALSE ELSE count <= RetryLimit
\* retry: (failureCount, error) => ..., asked after each failed attempt with
\* the number of attempts that had failed before it
Retry(count, kind) ==
  IF IncludesNotAnImage(kind) THEN FALSE ELSE count < RetryLimit

ShouldDeliverAlways(image, lastTimestamp) == image # 0
\* cameraImage?.blob && onImageUpdate &&
\* cameraImage.timestamp !== lastTimestampRef.current
ShouldDeliver(image, lastTimestamp) == image # 0 /\ image # lastTimestamp
\* lastTimestampRef.current = cameraImage.timestamp; onImageUpdate(blob)
Delivered(image) ==
  /\ lastTimestampRef' = image
  /\ delivered' = [delivered EXCEPT ![image] = @ + 1]
\* the Poller after n results were fetched and delivered, none failing
PollAfter(n) ==
  /\ cameraImage = n
  /\ lastTimestampRef = n
  /\ delivered = [i \in 1 .. MaxBlobs |-> IF i <= n THEN 1 ELSE 0]
  /\ failureCount = 0
  /\ queryError = FALSE
\* a fetch attempt succeeds with a new result, the query data changes and
\* the delivery effect runs: a new result has a new timestamp
FetchSucceeds ==
  /\ ShouldDeliver(nextBlob, lastTimestampRef)
  /\ cameraImage' = nextBlob
  /\ Delivered(nextBlob)
  /\ failureCount' = 0
  /\ queryError' = FALSE

\* ------------------------------------------------------------------ Init
Init ==
  /\ frames = <<>>
  /\ isCapturing = FALSE
  /\ maxFrames \in 1 .. MaxCap
  /\ urls = {}
  /\ nextBlob = 1
  /\ isCreatingGIF = FALSE
  /\ gifBlob = <<>>
  /\ isLoaded = FALSE
  /\ isLoading = FALSE
  /\ progress = 0
  /\ ffmpegRef = 0
  /\ engines = <<>>
  /\ calls = [c \in Slots |-> NoCall]
  /\ last = [op |-> "init", eng |-> 0, n |-> 0]
  /\ PollAfter(0)

Did(op, eng, n) == last' = [op |-> op, eng |-> eng, n |-> n]

\* ------------------------------------------- useFrameCapture: capture ops
\* startCapture: frameManager.startCapture(), then clearGIFState(), which is
\* useGIFCreator.clearFrames (its own frame manager holds no frame)
StartCaptureKeepsResult ==
  /\ isCapturing' = TRUE
  /\ frames' = <<>>
  /\ Did("startCapture", 0, 0)
  /\ UNCHANGED <<pollVars, maxFrames, urls, nextBlob, isCreatingGIF, gifBlob, adapterVars, calls>>
StartCapture ==
  /\ isCapturing' = TRUE
  /\ frames' = <<>>
  /\ gifBlob' = <<>>
  /\ Did("startCapture", 0, 0)
  /\ UNCHANGED <<pollVars, maxFrames, urls, nextBlob, isCreatingGIF, adapterVars, calls>>

StopCaptureDropsFetch ==
  /\ isCapturing' = FALSE
  /\ nextBlob' = IF nextBlob <= MaxBlobs THEN nextBlob + 1 ELSE nextBlob
  /\ Did("stopCapture", 0, 0)
  /\ UNCHANGED <<pollVars, frames, maxFrames, urls, isCreatingGIF, gifBlob, adapterVars, calls>>
\* stopCapture: setIsCapturing(false); the Poller is not touched
StopCapture ==
  /\ isCapturing' = FALSE
  /\ Did("stopCapture", 0, 0)
  /\ UNCHANGED <<pollVars, frames, maxFrames, urls, nextBlob, isCreatingGIF, gifBlob,
                 adapterVars, calls>>

\* clearFrames: frameManager.clearFrames() alone
ClearFrames ==
  /\ urls' = urls \ BlobSet(frames)
  /\ frames' = <<>>
  /\ isCapturing' = FALSE
  /\ Did("clearFrames", 0, 0)
  /\ UNCHANGED <<pollVars, maxFrames, nextBlob, isCreatingGIF, gifBlob, adapterVars, calls>>

AddFrameNoGate ==
  /\ nextBlob <= MaxBlobs
  /\ FetchSucceeds
  /\ nextBlob' = nextBlob + 1
  /\ urls' = urls \cup {nextBlob}
  /\ LET r == AddFrameUpdater(frames, NewFrame(nextBlob), maxFrames)
     IN  /\ frames' = r.frames
         /\ isCapturing' = IF r.stop THEN FALSE ELSE isCapturing
         /\ Did(IF isCapturing THEN "addFrame:stored" ELSE "addFrame:notCapturing", 0, 0)
  /\ UNCHANGED <<maxFrames, isCreatingGIF, gifBlob, adapterVars, calls>>
\* The Poller fetches a new image and the delivery effect hands it to
\* addFrame(blob): the frame and its object URL are made before the gate
AddFrame ==
  /\ nextBlob <= MaxBlobs
  /\ FetchSucceeds
  /\ nextBlob' = nextBlob + 1
  /\ urls' = urls \cup {nextBlob}
  /\ IF ~isCapturing
       THEN /\ Did("addFrame:notCapturing", 0, 0)
            /\ UNCHANGED <<frames, isCapturing>>
       ELSE LET r == AddFrameUpdater(frames, NewFrame(nextBlob), maxFrames)
            IN  /\ frames' = r.frames
                /\ isCapturing' = IF r.stop THEN FALSE ELSE isCapturing
                /\ Did("addFrame:stored", 0, 0)
  /\ UNCHANGED <<maxFrames, isCreatingGIF, gifBlob, adapterVars, calls>>

ToggleFrameSelection(index) ==
  /\ frames' = ToggleAt(frames, index)
  /\ Did("toggleFrameSelection", 0, 0)
  /\ UNCHANGED <<pollVars, isCapturing, maxFrames, urls, nextBlob, isCreatingGIF, gifBlob,
                 adapterVars, calls>>

\* -------------------------------------------------------------- createGIF
\* useFrameCapture.createGIF and useGIFCreator.createGIF reject before any
\* state is set
CreateGIFRejected ==
  LET selectedFrames == SelectedFrames(frames)
  IN  /\ TooFewSelected(selectedFrames) \/ Len(selectedFrames) = 0
      /\ Did(IF TooFewSelected(selectedFrames)
               THEN "createGIF:InsufficientFrames" ELSE "createGIF:NoFrames", 0, 0)
      /\ UNCHANGED <<pollVars, storeVars, isCreatingGIF, gifBlob, adapterVars, calls>>

\* a rejection of useGIFCreator.createGIF after setIsCreatingGIF(true)
Reject(c, a, inTry, op, n) ==
  /\ SetAdapter([a EXCEPT !.progress =
                   IF inTry THEN ProgressAfterEncode(a.progress, FALSE) ELSE @])
  /\ isCreatingGIF' = CreatingAfterSettle(TRUE, FALSE)
  /\ calls' = [calls EXCEPT ![c] = Settled]
  /\ Did(op, calls[c].eng, n)

\* the call goes on to r, the state at its next pending await or its throw
Continue(c, r, op) ==
  /\ Len(r.a.engines) <= MaxEngines
  /\ IF r.st = "pending"
       THEN /\ SetAdapter(r.a)
            /\ calls' = [calls EXCEPT ![c] = r.call]
            /\ Did(op, 0, 0)
       ELSE /\ SetAdapter(r.a)
            /\ calls' = [calls EXCEPT ![c] = Settled]
            /\ Did("rejected:init", 0, 0)

MinSlot(S) == CHOOSE c \in S : \A d \in S : c <= d

\* createGIF of useFrameCapture with enough selected frames, up to the
\* first pending await of useGIFCreator.createGIF
CreateGIF ==
  LET selectedFrames == SelectedFrames(frames)
      blobs == Blobs(selectedFrames)
  IN  /\ ~TooFewSelected(selectedFrames)
      /\ Len(blobs) # 0
      /\ FreeSlots # {}
      /\ LET c == MinSlot(FreeSlots)
             call == [NoCall EXCEPT !.pc = "start", !.images = blobs,
                                    !.L = isLoaded, !.G = isLoading]
             r == GIFCreatorTry(Adapter, call)
         IN  /\ Continue(c, r, "createGIF:called")
             /\ isCreatingGIF' = IF r.st = "pending" THEN TRUE
                                 ELSE CreatingAfterSettle(TRUE, FALSE)
      /\ gifBlob' = <<>>
      /\ UNCHANGED <<pollVars, storeVars>>


\* ------------------------------------------------- asynchronous completions
\* await ffmpeg.load(...) resolves: setIsLoaded(true), the finally of
\* loadFFmpeg, then the caller goes on with the closure it was started with
LoadResolve(c) ==
  LET call == calls[c]
      a == LoadFinally([Adapter EXCEPT !.engines[call.eng].loaded = TRUE,
                                       !.isLoaded = TRUE])
      r == IF call.pc = "load1" THEN FFmpegCreateGIF(a, call)
                                ELSE EncodeBody(a, call)
  IN  /\ call.pc \in {"load1", "load2"}
      /\ Continue(c, r, "await")
      /\ isCreatingGIF' = IF r.st = "pending" THEN isCreatingGIF
                          ELSE CreatingAfterSettle(isCreatingGIF, FALSE)
      /\ UNCHANGED <<pollVars, storeVars, gifBlob>>

\* toBlobURL or ffmpeg.load rejects: loadFFmpeg rethrows after its finally
LoadReject(c) ==
  /\ calls[c].pc \in {"load1", "load2"}
  /\ Reject(c, LoadFinally(Adapter), FALSE, "rejected:load", 0)
  /\ UNCHANGED <<pollVars, storeVars, gifBlob>>

\* await ffmpeg.writeFile(frame_i) resolves on a loaded engine
WriteResolve(c) ==
  LET call == calls[c]
      n == Len(call.images)
  IN  /\ call.pc = "write"
      /\ engines[call.eng].loaded
      /\ engines' = [engines EXCEPT ![call.eng].files[call.i] = call.images[call.i + 1]]
      /\ calls' = [calls EXCEPT ![c].i = IF call.i + 1 < n THEN call.i + 1 ELSE 0,
                                ![c].pc = IF call.i + 1 < n THEN "write" ELSE "exec"]
      /\ Did("await", 0, 0)
      /\ UNCHANGED <<pollVars, storeVars, isCreatingGIF, gifBlob, isLoaded, isLoading,
                     progress, ffmpegRef>>

\* fetchFile or writeFile rejects: catch rethrows, nothing is deleted
WriteReject(c) ==
  /\ calls[c].pc = "write"
  /\ Reject(c, Adapter, TRUE, "rejected:write", calls[c].i)
  /\ UNCHANGED <<pollVars, storeVars, gifBlob>>

\* ffmpeg.on('progress', ({ progress: p }) => setProgress(Math.round(p * 100)))
Progress(c, p) ==
  /\ calls[c].pc = "exec"
  /\ progress' = Round100(p)
  /\ Did("await", 0, 0)
  /\ UNCHANGED <<pollVars, storeVars, isCreatingGIF, gifBlob, isLoaded, isLoading,
                 ffmpegRef, engines, calls>>

\* await ffmpeg.exec([... '-i', 'frame_%04d.jpg', ... '-y', 'output.gif'])
ExecResolve(c) ==
  LET call == calls[c]
  IN  /\ call.pc = "exec"
      /\ engines' = [engines EXCEPT ![call.eng].out =
                       <<ReadPattern(engines[call.eng].files)>>]
      /\ calls' = [calls EXCEPT ![c].pc = "read"]
      /\ Did("await", 0, 0)
      /\ UNCHANGED <<pollVars, storeVars, isCreatingGIF, gifBlob, isLoaded, isLoading,
                     progress, ffmpegRef>>

ExecReject(c) ==
  /\ calls[c].pc = "exec"
  /\ Reject(c, Adapter, TRUE, "rejected:exec", Len(calls[c].images))
  /\ UNCHANGED <<pollVars, storeVars, gifBlob>>

\* const data = await ffmpeg.readFile('output.gif'), then the first deleteFile
ReadResolve(c) ==
  LET call == calls[c]
  IN  /\ call.pc = "read"
      /\ engines[call.eng].out # <<>>
      /\ calls' = [calls EXCEPT ![c].pc = "delete", ![c].i = 0,
                                ![c].data = engines[call.eng].out[1]]
      /\ Did("await", 0, 0)
      /\ UNCHANGED <<pollVars, storeVars, isCreatingGIF, gifBlob, adapterVars>>

ReadReject(c) ==
  /\ calls[c].pc = "read"
  /\ Reject(c, Adapter, TRUE, "rejected:read", Len(calls[c].images))
  /\ UNCHANGED <<pollVars, storeVars, gifBlob>>

DeleteSettleFatal(c, ok) ==
  LET call == calls[c]
      n == Len(call.images)
  IN  /\ call.pc = "delete"
      /\ IF ok
           THEN /\ engines' = [engines EXCEPT ![call.eng].files[call.i] = NoFile]
                /\ calls' = [calls EXCEPT
                               ![c].i = IF call.i + 1 < n THEN call.i + 1 ELSE 0,
                               ![c].pc = IF call.i + 1 < n THEN "delete"
                                                           ELSE "deleteOut"]
                /\ Did("await", 0, 0)
                /\ UNCHANGED <<isCreatingGIF, isLoaded, isLoading, progress,
                               ffmpegRef>>
           ELSE Reject(c, Adapter, TRUE, "rejected:delete", n)
      /\ UNCHANGED <<pollVars, storeVars, gifBlob>>

\* await ffmpeg.deleteFile(frame_i) in its own try: ok tells whether it
\* resolved; a rejection is logged and the loop goes on
DeleteSettle(c, ok) ==
  LET call == calls[c]
      n == Len(call.images)
  IN  /\ call.pc = "delete"
      /\ engines' = IF ok THEN [engines EXCEPT ![call.eng].files[call.i] = NoFile]
                          ELSE engines
      /\ calls' = [calls EXCEPT ![c].i = IF call.i + 1 < n THEN call.i + 1 ELSE 0,
                                ![c].pc = IF call.i + 1 < n THEN "delete"
                                                            ELSE "deleteOut"]
      /\ Did("await", 0, 0)
      /\ UNCHANGED <<pollVars, storeVars, isCreatingGIF, gifBlob, isLoaded, isLoading,
                     progress, ffmpegRef>>

\* await ffmpeg.deleteFile('output.gif') in its own try, then the Blob is
\* returned: setGifBlob(gif) and both finally blocks
DeleteOutSettle(c, ok) ==
  LET call == calls[c]
  IN  /\ call.pc = "deleteOut"
      /\ engines' = IF ok THEN [engines EXCEPT ![call.eng].out = <<>>] ELSE engines
      /\ progress' = ProgressAfterEncode(progress, TRUE)
      /\ gifBlob' = <<call.data>>
      /\ isCreatingGIF' = CreatingAfterSettle(isCreatingGIF, TRUE)
      /\ calls' = [calls EXCEPT ![c] = Settled]
      /\ Did("resolved", call.eng, Len(call.images))
      /\ UNCHANGED <<pollVars, storeVars, isLoaded, isLoading, ffmpegRef>>

\* ------------------------------------------------------ the Poller's steps
\* A render in which onImageUpdate has a new identity (addFrame is rebuilt
\* when isCapturing or maxFrames changes, handleImageUpdate with it): the
\* delivery effect runs again on the cameraImage it has already seen
Rerender ==
  /\ IF ShouldDeliver(cameraImage, lastTimestampRef)
       THEN /\ Delivered(cameraImage)
            /\ urls' = urls \cup {cameraImage}
            /\ IF ~isCapturing
                 THEN UNCHANGED <<frames, isCapturing>>
                 ELSE LET r == AddFrameUpdater(frames, NewFrame(cameraImage),
                                               maxFrames)
                      IN  /\ frames' = r.frames
                          /\ isCapturing' = IF r.stop THEN FALSE
                                                      ELSE isCapturing
       ELSE UNCHANGED <<lastTimestampRef, delivered, urls, frames, isCapturing>>
  /\ Did("rerender", 0, cameraImage)
  /\ UNCHANGED <<cameraImage, failureCount, queryError, maxFrames, nextBlob,
                 isCreatingGIF, gifBlob, adapterVars, calls>>

\* One fetch attempt of the poll cycle fails.  react-query asks retry with
\* the number of attempts of this cycle that failed before; a cycle that
\* ends in an error leaves data as it was and the next cycle starts at 0.
FetchFail(kind) ==
  /\ IF Retry(failureCount, kind)
       THEN /\ failureCount' = failureCount + 1
            /\ queryError' = FALSE
       ELSE /\ failureCount' = 0
            /\ queryError' = TRUE
  /\ Did("fetchFail:" \o kind, 0, failureCount + 1)
  /\ UNCHANGED <<cameraImage, lastTimestampRef, delivered, storeVars,
                 isCreatingGIF, gifBlob, adapterVars, calls>>

\* setMaxFrames(n): the state setter itself, handed to the max-frames input
\* as onMaxFramesChange(Number(e.target.value))
SetMaxFrames(n) ==
  /\ maxFrames' = n
  /\ Did("setMaxFrames", 0, n)
  /\ UNCHANGED <<pollVars, frames, isCapturing, urls, nextBlob, isCreatingGIF,
                 gifBlob, adapterVars, calls>>

\* ------------------------------------------------------------------ Next
Capture ==
  \/ StartCapture
  \/ StopCapture
  \/ ClearFrames
  \/ AddFrame
  \/ \E index \in 0 .. MaxCap : ToggleFrameSelection(index)

Engine(c) ==
  \/ LoadResolve(c)
  \/ LoadReject(c)
  \/ WriteResolve(c)
  \/ WriteReject(c)
  \/ \E p \in ProgressReports : Progress(c, p)
  \/ ExecResolve(c)
  \/ ExecReject(c)
  \/ ReadResolve(c)
  \/ ReadReject(c)
  \/ \E ok \in BOOLEAN : DeleteSettle(c, ok)
  \/ \E ok \in BOOLEAN : DeleteOutSettle(c, ok)

Next ==
  \/ Capture
  \/ Rerender
  \/ \E kind \in ErrorKinds : FetchFail(kind)
  \/ \E n \in 0 .. MaxCap : SetMaxFrames(n)
  \/ CreateGIFRejected
  \/ CreateGIF
  \/ \E c \in Slots : Engine(c)

\* the whole pipeline
Spec == Init /\ [][Next]_vars

\* The capture side alone: the engine has not answered yet.  The capture
\* operations read and write the Frame Store only, so the store takes the
\* same values here as in Spec.
NextCapture ==
  \/ Capture
  \/ CreateGIFRejected
  \/ CreateGIF

SpecCapture == Init /\ [][NextCapture]_vars

\* The live-preview screen: the Poller with its failures, the delivery
\* effect with its re-runs, and the capture controls of that screen
NextPoller ==
  \/ StartCapture
  \/ StopCapture
  \/ AddFrame
  \/ Rerender
  \/ \E kind \in ErrorKinds : FetchFail(kind)

SpecPoller == Init /\ [][NextPoller]_vars

\* The capture side with the settings panel: the max-frames input is live
\* in every capture state and hands any number to setMaxFrames
NextSettings ==
  \/ StartCapture
  \/ StopCapture
  \/ ClearFrames
  \/ AddFrame
  \/ \E n \in 0 .. MaxCap : SetMaxFrames(n)

SpecSettings == Init /\ [][NextSettings]_vars

\* The encode side alone, from the state a capture stopped by the user
\* leaves behind: startCapture, MinSelected addFrame calls, stopCapture.
InitEncode ==
  /\ frames = [i \in 1 .. MinSelected |-> NewFrame(i)]
  /\ isCapturing = FALSE
  /\ maxFrames = MaxCap
  /\ urls = 1 .. MinSelected
  /\ nextBlob = MinSelected + 1
  /\ isCreatingGIF = FALSE
  /\ gifBlob = <<>>
  /\ isLoaded = FALSE
  /\ isLoading = FALSE
  /\ progress = 0
  /\ ffmpegRef = 0
  /\ engines = <<>>
  /\ calls = [c \in Slots |-> NoCall]
  /\ last = [op |-> "stopCapture", eng |-> 0, n |-> 0]
  /\ PollAfter(MinSelected)

NextEncode ==
  \/ CreateGIF
  \/ \E c \in Slots : Engine(c)

SpecEncode == InitEncode /\ [][NextEncode]_vars

\* every await of a call settles: the awaited promise resolves or rejects;
\* progress reports alone do not count
Advance(c) ==
  \/ LoadResolve(c)
  \/ LoadReject(c)
  \/ WriteResolve(c)
  \/ WriteReject(c)
  \/ ExecResolve(c)
  \/ ExecReject(c)
  \/ ReadResolve(c)
  \/ ReadReject(c)
  \/ \E ok \in BOOLEAN : DeleteSettle(c, ok)
  \/ \E ok \in BOOLEAN : DeleteOutSettle(c, ok)

SpecEncodeFair == SpecEncode /\ \A c \in Slots : WF_vars(Advance(c))


\* The encode side as the App drives it: the Create GIF and Recreate GIF
\* buttons are disabled while isCreatingGIF is true
ClickCreateGIF ==
  /\ ~isCreatingGIF
  /\ CreateGIF

NextGated ==
  \/ ClickCreateGIF
  \/ \E c \in Slots : Engine(c)

SpecGated == InitEncode /\ [][NextGated]_vars

\* The captured-frames screen after a capture that ran to its cap: MaxCap
\* frames are stored, all selected, and the user toggles frames and creates
\* GIFs one after the other
InitCaptured ==
  /\ frames = [i \in 1 .. MaxCap |-> NewFrame(i)]
  /\ isCapturing = FALSE
  /\ maxFrames = MaxCap
  /\ urls = 1 .. MaxCap
  /\ nextBlob = MaxCap + 1
  /\ isCreatingGIF = FALSE
  /\ gifBlob = <<>>
  /\ isLoaded = FALSE
  /\ isLoading = FALSE
  /\ progress = 0
  /\ ffmpegRef = 0
  /\ engines = <<>>
  /\ calls = [c \in Slots |-> NoCall]
  /\ last = [op |-> "addFrame:stored", eng |-> 0, n |-> 0]
  /\ PollAfter(MaxCap)

NextReencode ==
  \/ \E index \in 0 .. MaxCap : ToggleFrameSelection(index)
  \/ ClickCreateGIF
  \/ \E c \in Slots : Engine(c)

SpecReencode == InitCaptured /\ [][NextReencode]_vars

\* A capture left to itself: the user acts only while no capture runs, the
\* Poller keeps fetching (attempts may fail, the effect may re-run) and a
\* successful delivery is never postponed for ever.  A capture is started
\* only while MaxBlobs leaves the Poller maxFrames images to deliver.
StartCaptureIdle ==
  /\ ~isCapturing
  /\ nextBlob + maxFrames <= MaxBlobs + 1
  /\ StartCapture
ClearFramesIdle ==
  /\ ~isCapturing
  /\ ClearFrames

NextAutoStop ==
  \/ StartCaptureIdle
  \/ ClearFramesIdle
  \/ AddFrame
  \/ Rerender
  \/ \E kind \in ErrorKinds : FetchFail(kind)

SpecAutoStop == Init /\ [][NextAutoStop]_vars /\ WF_vars(AddFrame)

\* Both screens over one session: the back button of the captured-frames
\* screen is live while a GIF is being created, so capture operations may
\* run while a createGIF call is in flight
NextSession ==
  \/ StartCapture
  \/ StopCapture
  \/ ClearFrames
  \/ AddFrame
  \/ ClickCreateGIF
  \/ \E c \in Slots : Engine(c)

SpecSession == InitEncode /\ [][NextSession]_vars

\* The capture side after a first GIF was made: the state SpecGated is in
\* when its first createGIF has resolved and every deleteFile succeeded
\* (two engines were constructed and loaded, the second one did the work).
LoadedEngine == [NewEngine EXCEPT !.loaded = TRUE]
InitResult ==
  /\ frames = [i \in 1 .. MinSelected |-> NewFrame(i)]
  /\ isCapturing = FALSE
  /\ maxFrames = MaxCap
  /\ urls = 1 .. MinSelected
  /\ nextBlob = MinSelected + 1
  /\ isCreatingGIF = FALSE
  /\ gifBlob = <<[i \in 1 .. MinSelected |-> i]>>
  /\ isLoaded = TRUE
  /\ isLoading = FALSE
  /\ progress = 0
  /\ engines = <<LoadedEngine, LoadedEngine>>
  /\ ffmpegRef = Len(engines)
  /\ calls = [c \in Slots |-> IF c = MinSlot(Slots) THEN Settled ELSE NoCall]
  /\ last = [op |-> "resolved", eng |-> Len(engines), n |-> MinSelected]
  /\ PollAfter(MinSelected)

SpecResult == InitResult /\ [][NextCapture]_vars

\* ================================================================ claims
\* an addFrame call is the one step that takes the next image of the Poller
AddFrameStep == nextBlob' = nextBlob + 1
\* the frames whose selected flag is not false
SelectedIdx(fs) == {i \in DOMAIN fs : fs[i].selected # FALSE}
\* the k-th selected frame of fs, in store order
KthSelected(fs, k) ==
  CHOOSE i \in SelectedIdx(fs) : Cardinality({j \in SelectedIdx(fs) : j < i}) = k - 1
\* a createGIF call made in this step, of whatever outcome
CreateGIFStep ==
  last'.op \in {"createGIF:InsufficientFrames", "createGIF:NoFrames",
                "createGIF:called", "rejected:init"}
Started(c) == calls[c].pc = "none" /\ calls'[c].pc # "none"

\* C1: with maxFrames fixed at M >= 1, the Frame Store never holds more than
\* M frames, whatever startCapture, addFrame, stopCapture, clearFrames and
\* toggleFrameSelection calls are made.
C1_StoreWithinCap == Len(frames) <= maxFrames

\* C1 witness: the cap M = MaxCap was reached by an accepted addFrame
C1_Witness ==
  /\ maxFrames = MaxCap
  /\ Len(frames) = maxFrames
  /\ last.op = "addFrame:stored"

\* C2: the addFrame that brings the store to M frames also sets isCapturing
\* to false in that same step, a full store is never capturing, and an
\* addFrame made while not capturing leaves the stored sequence as it was.
C2_CapEnforcement ==
  /\ [](Len(frames) >= maxFrames => ~isCapturing)
  /\ [][AddFrameStep =>
          /\ (isCapturing /\ Len(frames) + 1 = maxFrames) =>
                (~isCapturing' /\ Len(frames') = maxFrames)
          /\ ~isCapturing => frames' = frames]_vars

\* C2 witness: an addFrame was made after the cap had stopped the capture
C2_Witness ==
  /\ maxFrames = MaxCap
  /\ Len(frames) = maxFrames
  /\ ~isCapturing
  /\ last.op = "addFrame:notCapturing"

\* C3: the store lists the frames in the order of the addFrame calls that
\* were accepted (blobs are numbered in call order), an accepted frame goes
\* to the end, and no step changes the relative order of two stored frames:
\* the frames kept by a step are listed in the same order before and after.
C3_OrderPreserved ==
  /\ [](\A i, j \in DOMAIN frames : i < j => frames[i].blob < frames[j].blob)
  /\ [][/\ SelectSeq(Blobs(frames), LAMBDA b : b \in BlobSet(frames'))
             = SelectSeq(Blobs(frames'), LAMBDA b : b \in BlobSet(frames))
        /\ (AddFrameStep /\ isCapturing) =>
              /\ frames' # <<>>
              /\ frames'[Len(frames')].blob = nextBlob
        /\ last'.op \in {"toggleFrameSelection", "stopCapture"} =>
              Blobs(frames') = Blobs(frames)]_vars

\* C3 witness: several frames captured, then one of them deselected
C3_Witness ==
  /\ Len(frames) >= 2
  /\ last.op = "toggleFrameSelection"
  /\ \E i \in DOMAIN frames : ~frames[i].selected

\* C4: a createGIF call hands the encoder exactly the blobs of the frames
\* whose selected flag is not false at the time of the call, in store order.
C4_SelectionFilter ==
  [][\A c \in Slots :
       (Started(c) /\ calls'[c].pc # "done") =>
          /\ Len(calls'[c].images) = Cardinality(SelectedIdx(frames))
          /\ \A k \in 1 .. Len(calls'[c].images) :
               calls'[c].images[k] = frames[KthSelected(frames, k)].blob]_vars

\* C4 witness: a call made with the middle one of three frames deselected
C4_Witness ==
  /\ Len(frames) = 3
  /\ ~frames[2].selected
  /\ last.op = "createGIF:called"
  /\ \E c \in InFlight : Len(calls[c].images) = 2

\* C5: createGIF with fewer than two selected frames fails with the
\* insufficient-frames error, starts no call on the encoder and leaves the
\* Frame Store and the capturing flag as they were.
C5_MinimumFrames ==
  [][(CreateGIFStep /\ Cardinality(SelectedIdx(frames)) < 2) =>
        /\ last'.op = "createGIF:InsufficientFrames"
        /\ calls' = calls
        /\ engines' = engines
        /\ isCreatingGIF' = isCreatingGIF
        /\ frames' = frames
        /\ isCapturing' = isCapturing]_vars

\* C5 witness: createGIF was refused with exactly one of several frames selected
C5_Witness ==
  /\ last.op = "createGIF:InsufficientFrames"
  /\ Len(frames) >= 2
  /\ Cardinality(SelectedIdx(frames)) = 1


\* a call settles in this step: its promise resolves or rejects
Settles(c) == calls[c].pc \notin {"none", "done"} /\ calls'[c].pc = "done"

\* C6: isCreatingGIF is true only while some createGIF call is in flight,
\* it is false in the state a call settles in, whether the call resolved or
\* rejected, and once true it becomes false again.
C6_CreatingFlagCleared ==
  /\ [](isCreatingGIF => InFlight # {})
  /\ [][(\E c \in Slots : Settles(c)) => ~isCreatingGIF']_vars
  /\ (isCreatingGIF ~> ~isCreatingGIF)

\* C6 witness: a call was rejected by the engine and the flag is clear
C6_Witness ==
  /\ last.op \in {"rejected:load", "rejected:write", "rejected:exec", "rejected:read"}
  /\ ~isCreatingGIF
  /\ gifBlob = <<>>


\* the calls inside encode() of the adapter (useFFmpeg.createGIF)
Encoding == {c \in Slots : calls[c].pc \in EncodePcs}

\* C7: at most one encode() call is in flight at any time; a createGIF made
\* while isCreatingGIF is true starts no second, overlapping encode.
C7_OneEncodeInFlight == Cardinality(Encoding) <= 1

\* C8: after an encode() call has rejected in its write, exec or read phase,
\* none of the frame files it wrote, nor the output file, remains in the
\* working space of the engine it used.
C8_NoFilesAfterFailure ==
  last.op \in {"rejected:write", "rejected:exec", "rejected:read"} =>
    /\ \A f \in FileIdx : f < last.n => engines[last.eng].files[f] = NoFile
    /\ engines[last.eng].out = <<>>

\* C9: progress is 0 in the state an encode() call settles in, by success or
\* by failure, it is 0 when a call enters its write phase, and it differs
\* from 0 only while some call is inside the try block of encode().
C9_ProgressReset ==
  /\ [](progress # 0 => \E c \in Slots : calls[c].pc \in TryPcs)
  /\ [][\A c \in Slots :
          /\ (calls[c].pc \in TryPcs /\ Settles(c)) => progress' = 0
          /\ (calls[c].pc \notin TryPcs /\ calls'[c].pc \in TryPcs) =>
                progress' = 0]_vars

\* C9 witness: both calls have settled, the last one by a failure after the
\* engine had run, and progress reads 0
C9_Witness ==
  /\ \A c \in Slots : calls[c].pc = "done"
  /\ last.op \in {"rejected:exec", "rejected:read"}
  /\ progress = 0

\* the calls awaiting ffmpeg.load
Loading == {c \in Slots : calls[c].pc \in {"load1", "load2"}}

\* C10: while one initialize() is in flight no second engine load is
\* started, and no call that found the load in flight goes on to write to
\* the engine that is still loading.
C10_InitializeAwaited ==
  /\ Cardinality(Loading) <= 1
  /\ \A c, d \in Slots :
       (calls[c].pc = "write" /\ d \in Loading) => calls[c].eng # calls[d].eng

\* C11: once an engine has been loaded, no FFmpeg instance is constructed
\* after it: a loaded engine is the last one constructed, so the session has
\* one engine, constructed and loaded once (engines lists the instances in
\* the order they were constructed).
C11_SingletonEngine ==
  \A e \in DOMAIN engines : engines[e].loaded => e = Len(engines)

\* C12: startCapture can be called in every state, capturing or not, and the
\* state it leaves has an empty Frame Store, isCapturing true and no Encoded
\* Result.
C12_StartCaptureResets ==
  /\ [](ENABLED StartCapture)
  /\ [][last'.op = "startCapture" =>
          /\ frames' = <<>>
          /\ isCapturing'
          /\ gifBlob' = <<>>]_vars

\* C12 witness: startCapture was called with the two frames and the GIF of
\* the first encode still there (no frame was added or cleared since), and
\* they are gone
C12_Witness ==
  /\ last.op = "startCapture"
  /\ urls = 1 .. MinSelected
  /\ nextBlob = MinSelected + 1
  /\ frames = <<>>
  /\ isCapturing
  /\ gifBlob = <<>>

\* C13: clearFrames leaves an empty Frame Store, isCapturing false and no
\* Encoded Result: gifBlob is null after every clearFrames call.
C13_ClearFramesDiscardsResult ==
  [][last'.op = "clearFrames" =>
        /\ frames' = <<>>
        /\ ~isCapturing'
        /\ gifBlob' = <<>>]_vars

\* C14: an addFrame call made while isCapturing is false leaves the Frame
\* Store as it was (same frames, same order, same selection flags) and
\* leaves isCapturing false.
C14_AddFrameWhenIdle ==
  [][(AddFrameStep /\ ~isCapturing) =>
        /\ frames' = frames
        /\ isCapturing' = isCapturing]_vars

\* C14 witness: an image arrived after the user had stopped a capture that
\* had room left, with one of the stored frames deselected
C14_Witness ==
  /\ last.op = "addFrame:notCapturing"
  /\ ~isCapturing
  /\ frames # <<>>
  /\ Len(frames) < maxFrames
  /\ \E i \in DOMAIN frames : ~frames[i].selected

\* C15: stopCapture does not cancel the fetch that is under way (the image
\* the Poller delivers next is the same before and after, and it is still
\* delivered), and the image delivered after the stop is not appended.
C15_StopMidFetch ==
  /\ [][last'.op = "stopCapture" => (nextBlob' = nextBlob /\ urls' = urls)]_vars
  /\ [](nextBlob <= MaxBlobs => ENABLED AddFrame)
  /\ [][(last.op = "stopCapture" /\ AddFrameStep) =>
          (frames' = frames /\ ~isCapturing')]_vars

\* C15 witness: every image but the last was stored, the capture was stopped
\* by the user before the cap, and the last image arrived after the stop
C15_Witness ==
  /\ last.op = "addFrame:notCapturing"
  /\ Len(frames) >= 1
  /\ Len(frames) < maxFrames
  /\ Blobs(frames) = [i \in 1 .. Len(frames) |-> i]
  /\ nextBlob = Len(frames) + 2

\* C16: isCapturing turns from false to true only in a startCapture step,
\* and from true to false only in a stopCapture step, a clearFrames step or
\* the addFrame step that fills the store to maxFrames; no addFrame,
\* toggleFrameSelection or createGIF step turns it on.
C16_CaptureStateMachine ==
  [][/\ (~isCapturing /\ isCapturing') => last'.op = "startCapture"
     /\ (isCapturing /\ ~isCapturing') =>
          \/ last'.op \in {"stopCapture", "clearFrames"}
          \/ (last'.op = "addFrame:stored" /\ Len(frames') >= maxFrames)]_vars

\* C16 witness: a capture with a cap of two went Idle, Capturing, Idle by
\* reaching the cap
C16_Witness ==
  /\ maxFrames = 2
  /\ ~isCapturing
  /\ last.op = "addFrame:stored"
  /\ Len(frames) = 2

\* C17: a createGIF call that rejects leaves the Frame Store as it was, and
\* a later createGIF can succeed if the engine does not fail again: no call
\* is left writing to an engine that was never loaded (such a write can only
\* be rejected, whatever the engine does afterwards).
C17_RetryAfterFailure ==
  /\ [][(\E c \in Slots : Settles(c)) =>
          (frames' = frames /\ isCapturing' = isCapturing)]_vars
  /\ [](\A c \in Slots :
          (calls[c].pc = "write" /\ Loading = {}) => engines[calls[c].eng].loaded)

\* C18: for every stored sequence and every index i, toggleFrameSelection(i)
\* keeps the length, the order and the images, flips the selected flag of
\* the frame at JavaScript index i and of no other frame, is a no-op when i
\* is out of range, and applied twice gives the original sequence back; a
\* toggleFrameSelection step changes frames in that way and leaves
\* isCapturing alone.
C18_ToggleSelection ==
  /\ [](\A i \in 0 .. MaxCap :
          LET t == ToggleAt(frames, i)
          IN  /\ Len(t) = Len(frames)
              /\ Blobs(t) = Blobs(frames)
              /\ \A k \in DOMAIN frames :
                   t[k].selected = IF k = i + 1 THEN ~frames[k].selected
                                                ELSE frames[k].selected
              /\ i >= Len(frames) => t = frames
              /\ ToggleAt(t, i) = frames)
  /\ [][last'.op = "toggleFrameSelection" =>
          /\ \E i \in 0 .. MaxCap : frames' = ToggleAt(frames, i)
          /\ isCapturing' = isCapturing]_vars

\* C18 witness: with several frames stored, the last one alone is deselected
\* after a toggle
C18_Witness ==
  /\ last.op = "toggleFrameSelection"
  /\ Len(frames) >= 2
  /\ \A k \in DOMAIN frames : frames[k].selected = (k # Len(frames))

\* C19: the frame an accepted addFrame stores has selected = true, and the
\* selected flag of a frame that stays in the store differs before and
\* after a step only if the step is a toggleFrameSelection addressed to the
\* index of that frame.
C19_SelectedFlag ==
  [][/\ last'.op = "addFrame:stored" =>
          /\ frames' # <<>>
          /\ frames'[Len(frames')].blob = nextBlob
          /\ frames'[Len(frames')].selected = TRUE
     /\ \A i \in DOMAIN frames : \A j \in DOMAIN frames' :
          (frames[i].blob = frames'[j].blob
             /\ frames[i].selected # frames'[j].selected) =>
            /\ last'.op = "toggleFrameSelection"
            /\ i = j
            /\ frames' = ToggleAt(frames, i - 1)]_vars

\* C19 witness: the addFrame that reached the cap stored a selected frame
\* and the first frame, deselected before, is still deselected
C19_Witness ==
  /\ last.op = "addFrame:stored"
  /\ Len(frames) >= 2
  /\ Len(frames) = maxFrames
  /\ ~frames[1].selected
  /\ frames[Len(frames)].selected

\* C20: a startCapture step leaves no object URL of a frame that was in the
\* Frame Store before it: every such URL has been revoked when the store is
\* emptied.
C20_StartCaptureRevokes ==
  [][last'.op = "startCapture" => BlobSet(frames) \cap urls' = {}]_vars

\* C21: each fetched result reaches onImageUpdate (addFrame) at most once,
\* however often the delivery effect runs again on the same result
C21_DeliveredOnce == \A image \in DOMAIN delivered : delivered[image] <= 1
\* the effect has run again on a result it had delivered, after the capture
\* state (and with it onImageUpdate) had changed
C21_Witness ==
  /\ last.op = "rerender"
  /\ last.n # 0
  /\ delivered[last.n] = 1
  /\ lastTimestampRef = cameraImage

\* C22: in one poll cycle a failing fetch is attempted at most 3 times (2
\* retries) before the cycle reports the error, and an attempt that fails
\* because the payload is not an image ends the cycle at once
C22_RetryPolicy ==
  /\ failureCount <= 2
  /\ \A kind \in ErrorKinds :
       last.op = "fetchFail:" \o kind =>
         /\ last.n <= 3
         /\ last.n = 3 => queryError
         /\ kind = "notImage" => queryError /\ failureCount = 0
\* the third attempt of a cycle has failed with a transport error and the
\* cycle has reported the failure
C22_Witness ==
  /\ last.op = "fetchFail:network"
  /\ last.n = 3
  /\ queryError
  /\ failureCount = 0

\* C23: while one encode call runs, the reported progress is an integer
\* from 0 to 100 and no report is lower than the one before it, whatever
\* the engine reports
C23_ProgressMonotone ==
  /\ [](progress \in 0 .. 100)
  /\ [][\A c \in Slots :
          calls[c].pc = "exec" /\ calls'[c].pc = "exec" =>
            progress' >= progress]_vars

\* C24: once the output was read back, the call resolves with it whatever
\* the deleteFile calls do: each deleteFile, thrown or not, is followed by
\* the next one, and the last one by the resolution with the data read
C24_CleanupNotFatal ==
  [][\A c \in Slots :
       LET call == calls[c]
       IN  /\ call.pc = "delete" =>
                /\ calls'[c].pc = IF call.i + 1 < Len(call.images)
                                    THEN "delete" ELSE "deleteOut"
                /\ calls'[c].pc = "delete" => calls'[c].i = call.i + 1
                /\ calls'[c].data = call.data
           /\ call.pc = "deleteOut" =>
                /\ calls'[c] = Settled
                /\ last'.op = "resolved"
                /\ gifBlob' = <<call.data>>]_vars
\* a call has resolved with its output although every deleteFile threw:
\* the input files and the output file are still on the engine
C24_Witness ==
  /\ last.op = "resolved"
  /\ gifBlob # <<>>
  /\ engines[last.eng].out = gifBlob
  /\ \A i \in 0 .. (last.n - 1) : engines[last.eng].files[i] # NoFile

\* C25: no frame leaves the store or changes its position except by
\* startCapture or clearFrames; addFrame in particular only appends
C25_NoEviction ==
  [][\/ last'.op \in {"startCapture", "clearFrames"}
     \/ /\ Len(frames') >= Len(frames)
        /\ \A i \in DOMAIN frames : frames'[i].blob = frames[i].blob]_vars

\* C26: what the engine encodes in a call is the images of that call, in
\* their order, whatever earlier calls left on the engine
C26_ReadsOwnFrames ==
  \A c \in Slots :
    calls[c].pc = "read" => engines[calls[c].eng].out = <<calls[c].images>>

\* C27: after startCapture there is no Encoded Result until a createGIF
\* called after it has succeeded; such a call needs MinSelected frames of
\* the new session, so a capture that has not yet stored that many has none
C27_NoStaleResult ==
  (isCapturing /\ Len(frames) < MinSelected) => gifBlob = <<>>

\* C28: every object URL that addFrame has created and nobody has revoked
\* is the URL of a frame in the store, so at most maxFrames of them are live
C28_HandlesOwned ==
  /\ urls \subseteq BlobSet(frames)
  /\ Cardinality(urls) <= maxFrames

\* C29: a capture that the user leaves alone, fed by a Poller that keeps
\* delivering, ends by itself with exactly maxFrames frames in the store
C29_AutoStopReached ==
  isCapturing ~> (~isCapturing /\ Len(frames) = maxFrames)
\* a capture of MaxCap frames has just been stopped by its last addFrame
C29_Witness ==
  /\ last.op = "addFrame:stored"
  /\ ~isCapturing
  /\ maxFrames = MaxCap
  /\ Len(frames) = maxFrames

\* C30: the store never holds more than maxFrames frames, wherever and to
\* whatever value maxFrames is changed, and the change itself leaves the
\* stored frames as they are
C30_CapAfterSetMaxFrames ==
  /\ [](Len(frames) <= maxFrames)
  /\ [][last'.op = "setMaxFrames" => frames' = frames]_vars

====
